---- MODULE Spec2Model ----
(***************************************************************************)
(* Model of the layer <-> table interchange code of plugin_map2loop:       *)
(*   m2l/main/vectorLayerWrapper.py      (current package)                 *)
(*   map2loop/main/vectorLayerWrapper.py (older copy of the package)       *)
(* Every behaviour runs one operation, chosen in Init together with its    *)
(* inputs.  Loops of the converters advance one iteration per step so the  *)
(* host's cancellation flag can be raised between any two iterations.      *)
(***************************************************************************)
EXTENDS Integers, Sequences, FiniteSets, TLC

VARIABLES
    op,         \* the operation this behaviour runs
    pc,         \* position inside the operation: "start", "loop", "done", "error"
    canceled,   \* the host's cancellation flag (feedback.isCanceled())
    layer,      \* source QGIS layer of a forward conversion
    dtm,        \* raster handed to qgsLayerToDataFrame
    table,      \* (Geo)DataFrame: input of a reverse conversion / result of a forward one
    matrix,     \* value handed to matrixToDict
    args,       \* keyword arguments of dataframeToQgsLayer
    i,          \* number of loop iterations completed
    data,       \* dict of column lists being filled by a forward conversion
    rows,       \* list of row dicts being filled by qgsLayerToDataFrame (m2l)
    sink,       \* destination sink: declared schema/type and the features added
    progress,   \* values passed to feedback.setProgress, in order
    polled,     \* number of times feedback.isCanceled() was called
    result      \* return value or exception of the operation

vars == <<op, pc, canceled, layer, dtm, table, matrix, args, i, data, rows, sink,
          progress, polled, result>>

-----------------------------------------------------------------------------
(* Bounds of the model *)

MaxFeatures == 2    \* features in a source layer
MaxRows == 2        \* rows in an input table
MaxRowLen == 5      \* entries in a bounding-box row
MaxCalls == 3       \* calls of qgsRasterToGdalDataset in one session
MaxUnits == 3       \* entries in a list of unit names

(* Program constants *)

Sentinel == -9999

-----------------------------------------------------------------------------
(* Generic helpers *)

\* the ways to pick n entries of the list q, as index functions
Picks(q, n) == [1..n -> 1..Len(q)]

\* the entries of q picked by ix
Pick(q, ix) == [n \in DOMAIN ix |-> q[ix[n]]]

RECURSIVE Concat(_)
\* concatenation of a sequence of sequences
Concat(ss) == IF ss = <<>> THEN <<>> ELSE Head(ss) \o Concat(Tail(ss))

Range(q) == {q[n] : n \in 1..Len(q)}

-----------------------------------------------------------------------------
(* Results of an operation *)

NoResult == [kind |-> "none"]
Return(v) == [kind |-> "return", value |-> v]
Raise(e, m, a) == [kind |-> "raise", exc |-> e, msg |-> m, shown |-> a]

\* a bare Exception in place of the processing exception
PlainException == "Exception"

QPE == "QgsProcessingException"

-----------------------------------------------------------------------------
(* matrixToDict: m2l/main/vectorLayerWrapper.py 605-652 *)

\* python floats: a number, or NaN as [nan |-> TRUE, ...] (every comparison
\* with NaN is false)
Num(n) == [nan |-> FALSE, v |-> n]
Lt(a, b) == ~a.nan /\ ~b.nan /\ a.v < b.v

\* entries of a row
ENum(n) == [e |-> "num", n |-> Num(n)]      \* a python number
EStr(n) == [e |-> "numstr", n |-> Num(n)]   \* text that float() parses, e.g. " 1 "
EText == [e |-> "text"]                     \* text that float() rejects, e.g. "a"
EList(r) == [e |-> "list", items |-> r]     \* a nested list (a matrix row)

\* values a caller may hand in
MInt(n) == [t |-> "int", n |-> n]           \* plain int (an enum index)
MScalar(t) == [t |-> t]                    \* a value of another type: its type(matrix)
MList(r) == [t |-> "list", items |-> r]     \* list or tuple
MStr(toks) == [t |-> "str", toks |-> toks]  \* the comma-separated pieces of a string

\* lines 626-636: the row to read the four numbers from; <<FALSE, _>> if unrecognized
SelectRow(m) ==
    IF m.t = "list"
    THEN IF Len(m.items) > 0 /\ m.items[1].e = "list"
         THEN <<TRUE, m.items[1].items>>
         ELSE <<TRUE, m.items>>
    ELSE IF m.t = "str" /\ Len(m.toks) >= 2      \* "," in matrix
         THEN <<TRUE, m.toks>>
         ELSE <<FALSE, <<>> >>

\* _to_float, lines 641-644: the exception float(v) raises, "" if none
_to_float_raises(v) ==
    CASE v.e \in {"num", "numstr"} -> ""
      [] v.e \in {"text", "blank"} -> "ValueError"
      [] OTHER -> "TypeError"

_to_float(v) == v.n

\* list(map(_to_float, row[:4])): the first exception raised, "" if none
FirstExc(row) ==
    LET bad == {n \in 1..4 : _to_float_raises(row[n]) # ""}
    IN IF bad = {} THEN ""
       ELSE _to_float_raises(row[CHOOSE n \in bad : \A o \in bad : n <= o])

\* line 649 with only the x test
ValidBBoxXOnly(b) == Lt(b.minx, b.maxx)

\* line 649
ValidBBox(b) == Lt(b.minx, b.maxx) /\ Lt(b.miny, b.maxy)

\* line 612 removed: the int is examined by the later checks
MatrixGuardSkipped(m) == FALSE

\* line 612: isinstance(matrix, int); bool is a subclass of int
MatrixGuard(m) == m.t \in {"int", "bool"}

matrixToDict(m) ==
    IF MatrixGuard(m)
    THEN Raise(QPE, "read with parameterAsEnum", <<>>)
    ELSE IF m.t = "NoneType"
    THEN Raise(QPE, "matrix is None", <<>>)
    ELSE IF m.t = "str" /\ Len(m.toks) = 1 /\ m.toks[1].e = "blank"   \* not matrix.strip()
    THEN Raise(QPE, "matrix is empty", <<>>)
    ELSE LET sel == SelectRow(m)
             row == sel[2]
         IN IF ~sel[1]
            THEN Raise(QPE, "Unrecognized bounding box value", <<m.t>>)
            ELSE IF Len(row) < 4
            THEN Raise(QPE, "needs 4 numbers", <<Len(row), row>>)
            ELSE IF FirstExc(row) # ""
            THEN Raise(FirstExc(row), "", <<>>)
            ELSE LET bbox == [minx |-> _to_float(row[1]), miny |-> _to_float(row[2]),
                              maxx |-> _to_float(row[3]), maxy |-> _to_float(row[4])]
                 IN IF ~ValidBBox(bbox)
                    THEN Raise(QPE, "Invalid bounding box", <<bbox>>)
                    ELSE Return(bbox)

\* inputs
\* numbers, float('nan'), text and None in a list; in a string, the last piece
\* is "" or whitespace only
ListEntries ==
    <<ENum(0), ENum(1), [e |-> "num", n |-> [nan |-> TRUE, v |-> 0]], EText, [e |-> "none"]>>
StrTokens == <<EStr(0), EStr(1), EText, [e |-> "blank"]>>
Scalars ==
    {MInt(0), MInt(1), MScalar("bool"), MScalar("NoneType"), MScalar("float"), MScalar("dict")}

\* the shapes a row of entries can be handed in as: "flat", "nested", or
\* "two rows" (the row followed by the row [1, 1, 0, 0])
Shaped(shape, r) ==
    CASE shape = "flat" -> MList(r)
      [] shape = "nested" -> MList(<<EList(r)>>)
      [] OTHER -> MList(<<EList(r), EList(<<ENum(1), ENum(1), ENum(0), ENum(0)>>)>>)

-----------------------------------------------------------------------------
(* Attribute values and geometries *)

Null == [k |-> "null"]                  \* QGIS NULL / None / NaN / NaT
IntV(n) == [k |-> "int", i |-> n]
FloatV(n) == [k |-> "float", i |-> n]
StrV(t) == [k |-> "str", s |-> t]
GeomV(g) == [k |-> "geom", g |-> g]

\* A geometry: its base family, whether it is a multi-part instance, whether it
\* carries Z, its parts, and the first serialisation that succeeds for it
\* ("wkb", "wkt" or "none"); a part is a sequence of rings (polygon), one line
\* (line) or one one-vertex line (point); a vertex is <<x, y>>.
Geom(f, m, z, p) == [family |-> f, multi |-> m, z |-> z, parts |-> p, enc |-> "wkb"]
NullGeom == Geom("None", FALSE, FALSE, <<>>)

\* QgsGeometry.isEmpty() / shapely is_empty; true of a null geometry too
isEmpty(g) == g.parts = <<>>

Families == {"Point", "LineString", "Polygon"}

Pt(x, y) == << << <<x, y>> >> >>
Line2 == Geom("LineString", FALSE, FALSE, << << <<(<<0, 0>>), (<<1, 1>>)>> >> >>)
MultiLine34 ==
    Geom("LineString", TRUE, FALSE,
         << << <<(<<0, 0>>), (<<1, 0>>), (<<2, 0>>)>> >>,
            << <<(<<0, 1>>), (<<1, 1>>), (<<2, 1>>), (<<3, 1>>)>> >> >>)
PolygonHole ==
    Geom("Polygon", FALSE, FALSE,
         << << <<(<<0, 0>>), (<<3, 0>>), (<<0, 3>>), (<<0, 0>>)>>,
               <<(<<1, 1>>), (<<2, 1>>), (<<1, 2>>), (<<1, 1>>)>> >> >>)
\* no geometry, an empty line, a point, a point with Z, a two-point multipoint,
\* the lines, the polygon with a hole, a two-part multipolygon
Geometries ==
    <<NullGeom,
      Geom("LineString", FALSE, FALSE, <<>>),
      Geom("Point", FALSE, FALSE, <<Pt(0, 0)>>),
      Geom("Point", FALSE, TRUE, <<Pt(1, 1)>>),
      Geom("Point", TRUE, FALSE, <<Pt(0, 0), Pt(1, 1)>>),
      Line2, MultiLine34, PolygonHole,
      Geom("Polygon", TRUE, FALSE,
           << << <<(<<0, 0>>), (<<1, 0>>), (<<0, 1>>), (<<0, 0>>)>> >>,
              << <<(<<2, 2>>), (<<3, 2>>), (<<2, 3>>), (<<2, 2>>)>> >> >>)>>

-----------------------------------------------------------------------------
(* Source layers *)

Field(n, t) == [name |-> n, type |-> t]

Schemas ==
    {<<>>,
     <<Field("unit", "String")>>,
     <<Field("id", "Int")>>,
     <<Field("geometry", "String")>>}

\* layers whose fields may be called like the coordinate columns (the sampler's
\* output layer has the fields ID, X, Y, Z, featureId: sampler.py 168-173)
VertexSchemas ==
    {<<>>,
     <<Field("unit", "String")>>,
     <<Field("X", "Double")>>,
     <<Field("Z", "Double")>>}

Labels == <<"a", "b", "c", "d">>

\* the attribute of feature n for a field: a value of the field's type that
\* identifies the feature, or NULL in the first feature when withNull
AttrOf(f, n, withNull) ==
    IF withNull /\ n = 1 THEN Null
    ELSE IF f.type = "String" THEN StrV(Labels[n])
    ELSE IF f.type = "Int" THEN IntV(n)
    ELSE FloatV(10 + n)

CrsIds == {"EPSG:4326", ""}     \* authid() of a valid CRS; of an invalid CRS

Layer(fs, c, wn, gs) ==
    [present |-> TRUE, fields |-> fs, crs |-> c,
     feats |-> [n \in 1..Len(gs) |->
                  [geom |-> gs[n],
                   attrs |-> [k \in 1..Len(fs) |-> AttrOf(fs[k], n, wn)]]]]

\* lyr is a layer of up to MaxFeatures features over the given choices
IsLayerOver(lyr, schemas, crss, nulls) ==
    \E fs \in schemas, c \in crss, wn \in nulls, n \in 0..MaxFeatures :
        \E ix \in Picks(Geometries, n) : lyr = Layer(fs, c, wn, Pick(Geometries, ix))

\* feature[f.name()]
FeatureAttr(layerFields, feat, name) ==
    feat.attrs[CHOOSE c \in 1..Len(layerFields) : layerFields[c].name = name]

-----------------------------------------------------------------------------
(* Python dicts of column lists, and the frames pandas builds from them *)

DictSet(d, key, v) ==
    [keys |-> IF key \in Range(d.keys) THEN d.keys ELSE Append(d.keys, key),
     col |-> [n \in Range(d.keys) \cup {key} |-> IF n = key THEN v ELSE d.col[n]]]

DictAppend(d, key, v) == [d EXCEPT !.col[key] = Append(@, v)]

EmptyDict(key) == [keys |-> <<key>>, col |-> [n \in {key} |-> <<>>]]

\* dtype pandas infers for a list of python values
InferDtype(vals) ==
    LET kinds == {vals[n].k : n \in 1..Len(vals)}
    IN IF kinds = {"int"} THEN "int64"
       ELSE IF kinds # {} /\ kinds \subseteq {"int", "float"} THEN "float64"
       ELSE IF kinds = {"geom"} THEN "geometry"
       ELSE "object"

\* pd.DataFrame(data): every list must have the same length
SameLengths(d) == \A a, b \in Range(d.keys) : Len(d.col[a]) = Len(d.col[b])

Frame(d, crs) ==
    [present |-> TRUE, cols |-> d.keys,
     dtype |-> [n \in Range(d.keys) |-> InferDtype(d.col[n])],
     rows |-> [r \in 1..Len(d.col[d.keys[1]]) |-> [n \in Range(d.keys) |-> d.col[n][r]]],
     crs |-> crs]

\* gpd.GeoDataFrame(data, crs=authid): lists of equal length, geometries in the
\* geometry column; an empty authid gives a frame without CRS
GeoDataFrame(d, authid) ==
    IF ~SameLengths(d) THEN Raise("ValueError", "All arrays must be of the same length", <<>>)
    ELSE IF \E r \in 1..Len(d.col["geometry"]) : d.col["geometry"][r].k # "geom"
    THEN Raise("TypeError", "Input must be valid geometry objects", <<>>)
    ELSE Return(Frame(d, IF authid = "" THEN "none" ELSE authid))

-----------------------------------------------------------------------------
(* qgsLayerToGeoDataFrame: m2l/main/vectorLayerWrapper.py 89-107 *)

\* line 103-106: text fields are passed through str()
ExportAttr(f, v) == IF f.type = "String" /\ v.k = "null" THEN StrV("NULL") ELSE v

RECURSIVE InitColumns(_, _)
\* lines 94-96
InitColumns(d, fields) ==
    IF fields = <<>> THEN d
    ELSE InitColumns(DictSet(d, Head(fields).name, <<>>), Tail(fields))

RECURSIVE AppendAttrs(_, _, _, _)
\* lines 102-106
AppendAttrs(d, fields, allFields, feat) ==
    IF fields = <<>> THEN d
    ELSE AppendAttrs(
            DictAppend(d, Head(fields).name,
                       ExportAttr(Head(fields),
                                  FeatureAttr(allFields, feat, Head(fields).name))),
            Tail(fields), allFields, feat)

\* lines 98-106: one iteration of the feature loop
GdfAddFeature(d, fields, feat) ==
    IF isEmpty(feat.geom) THEN d
    ELSE AppendAttrs(DictAppend(d, "geometry", GeomV(feat.geom)), fields, fields, feat)

-----------------------------------------------------------------------------
(* qgsLayerToDataFrame: m2l/main/vectorLayerWrapper.py 109-247.  Both source  *)
(* types the function documents (QgsVectorLayer, QgsProcessingFeatureSource)  *)
(* have fields(), so the fallback of lines 125-134 is not taken.              *)

\* A raster: its CRS ("" if invalid), what identify() answers, and whether the
\* transform into its CRS raises for some coordinates
Dtm(c, r, t) == [present |-> TRUE, crs |-> c, raster |-> r, transform |-> t]

NoDtm == [present |-> FALSE]

\* a source CRS with the raster to sample
Scene(c, d) == [crs |-> c, dtm |-> d]

Scenes ==
    {Scene("EPSG:4326", NoDtm),
     Scene("EPSG:4326", Dtm("EPSG:4326", "flat", "ok")),
     Scene("EPSG:4326", Dtm("EPSG:28350", "holes", "ok")),
     Scene("EPSG:4326", Dtm("EPSG:28350", "flat", "fails")),
     Scene("EPSG:4326", Dtm("EPSG:4326", "nobands", "ok")),
     Scene("EPSG:4326", Dtm("EPSG:4326", "nullband", "ok")),
     Scene("EPSG:4326", Dtm("", "band2", "ok")),
     Scene("", Dtm("EPSG:28350", "flat", "ok"))}

OldScenes ==
    {Scene("EPSG:4326", NoDtm),
     Scene("EPSG:4326", Dtm("EPSG:4326", "holes", "ok")),
     Scene("EPSG:4326", Dtm("EPSG:4326", "nobands", "ok"))}

\* QgsCoordinateTransform.transform: <<raised, x, y>>
Transform(d, x, y) ==
    IF d.transform = "fails" /\ x = 1 THEN <<TRUE, x, y>> ELSE <<FALSE, x + 10, y + 10>>

\* dataProvider().identify(point, IdentifyFormatValue): validity and the
\* band -> value pairs of results(), in order
Identify(d, x, y) ==
    CASE d.raster = "flat" -> [valid |-> TRUE, res |-> <<(<<1, IntV(100 + x)>>)>>]
      [] d.raster = "holes" ->
            IF x % 2 = 1 THEN [valid |-> FALSE, res |-> <<>>]
            ELSE [valid |-> TRUE, res |-> <<(<<1, IntV(100 + x)>>)>>]
      [] d.raster = "nobands" ->
            IF x % 10 = 0 THEN [valid |-> TRUE, res |-> <<>>]
            ELSE [valid |-> TRUE, res |-> <<(<<1, IntV(100 + x)>>)>>]
      [] d.raster = "nullband" ->
            IF x % 10 >= 2 THEN [valid |-> TRUE, res |-> <<(<<1, Null>>)>>]
            ELSE [valid |-> TRUE, res |-> <<(<<1, IntV(100 + x)>>)>>]
      [] OTHER -> [valid |-> TRUE, res |-> <<(<<2, IntV(100 + x)>>)>>]

\* res.get(1, next(iter(res.values())))
Band1OrFirst(res) ==
    IF \E n \in 1..Len(res) : res[n][1] = 1
    THEN res[CHOOSE n \in 1..Len(res) : res[n][1] = 1][2]
    ELSE res[1][2]

\* lines 164-175: the lookup at the (transformed) coordinate
Lookup(d, x, y) ==
    LET ident == Identify(d, x, y)
    IN IF ~ident.valid THEN Sentinel
       ELSE IF ident.res = <<>> THEN Sentinel
       ELSE IF Band1OrFirst(ident.res).k = "null" THEN Sentinel
       ELSE Band1OrFirst(ident.res).i

\* lines 153-175
sample_dtm_xy(srcCrs, d, x, y) ==
    IF ~d.present THEN 0
    ELSE IF d.crs # "" /\ srcCrs # "" /\ srcCrs # d.crs    \* lines 147-150
    THEN LET t == Transform(d, x, y)
         IN IF t[1] THEN Sentinel ELSE Lookup(d, t[2], t[3])
    ELSE Lookup(d, x, y)

\* the vertices of the rings/lines of every part, in order
Flatten(parts) == Concat([p \in 1..Len(parts) |-> Concat(parts[p])])

\* lines 178-213 reading only the first part of a multi-part geometry
vertices_first_part(g) ==
    IF g = NullGeom \/ isEmpty(g) THEN <<>>
    ELSE IF g.family \in Families THEN Concat(g.parts[1])
    ELSE <<>>

\* lines 178-213
vertices_from_geometry(g) ==
    IF g = NullGeom \/ isEmpty(g) THEN <<>>
    ELSE IF g.family = "Point"
    THEN IF g.multi THEN Flatten(g.parts) ELSE Concat(g.parts[1])
    ELSE IF g.family = "LineString"
    THEN IF g.multi THEN Flatten(g.parts) ELSE Concat(g.parts[1])
    ELSE IF g.family = "Polygon"
    THEN IF g.multi THEN Flatten(g.parts) ELSE Concat(g.parts[1])
    ELSE <<>>

FieldNames(fields) == [c \in 1..Len(fields) |-> fields[c].name]

\* lines 238-239: {"X": x, "Y": y, "Z": z} updated with the feature's attributes
VertexRow(fields, feat, x, y, z) ==
    [n \in {"X", "Y", "Z"} \cup Range(FieldNames(fields)) |->
        IF n \in Range(FieldNames(fields)) THEN FeatureAttr(fields, feat, n)
        ELSE IF n = "X" THEN FloatV(x)
        ELSE IF n = "Y" THEN FloatV(y)
        ELSE FloatV(z)]

\* lines 219-240: the rows of one feature
FeatureRows(lyr, d, feat) ==
    LET pts == vertices_from_geometry(feat.geom)
    IN [n \in 1..Len(pts) |->
          VertexRow(lyr.fields, feat, pts[n][1], pts[n][2],
                    sample_dtm_xy(lyr.crs, d, pts[n][1], pts[n][2]))]

\* lines 243-247: the frame built from the rows
RecordsFrame(fields, rs) ==
    LET names == FieldNames(fields)
        extra == SelectSeq(names, LAMBDA n : n \notin {"X", "Y", "Z"})
        cols == IF rs = <<>> THEN <<"X", "Y", "Z">> \o names
                ELSE <<"X", "Y", "Z">> \o extra
    IN [present |-> TRUE, cols |-> cols,
        dtype |-> [n \in Range(cols) |-> InferDtype([r \in 1..Len(rs) |-> rs[r][n]])],
        rows |-> rs, crs |-> "none"]

-----------------------------------------------------------------------------
(* qgsLayerToDataFrame: map2loop/main/vectorLayerWrapper.py 38-92 *)

\* lines 62-73: polygons give no points
OldPoints(g) ==
    IF g.family = "Point"
    THEN IF g.multi THEN Flatten(g.parts) ELSE IF isEmpty(g) THEN <<>> ELSE Concat(g.parts[1])
    ELSE IF g.family = "LineString"
    THEN IF g.multi THEN Flatten(g.parts) ELSE IF isEmpty(g) THEN <<>> ELSE Concat(g.parts[1])
    ELSE <<>>

\* lines 78-89: <<raised KeyError, z>>
OldSample(d, x, y) ==
    IF ~d.present THEN <<FALSE, IntV(0)>>
    ELSE LET ident == Identify(d, x, y)
         IN IF ~ident.valid THEN <<FALSE, IntV(Sentinel)>>
            ELSE IF \E n \in 1..Len(ident.res) : ident.res[n][1] = 1
            THEN <<FALSE, ident.res[CHOOSE n \in 1..Len(ident.res) : ident.res[n][1] = 1][2]>>
            ELSE <<TRUE, Null>>

RECURSIVE OldAppendAttrs(_, _, _, _)
\* lines 90-91
OldAppendAttrs(d, fields, allFields, feat) ==
    IF fields = <<>> THEN d
    ELSE OldAppendAttrs(
            DictAppend(d, Head(fields).name,
                       FeatureAttr(allFields, feat, Head(fields).name)),
            Tail(fields), allFields, feat)

RECURSIVE OldAddPoints(_, _, _, _, _)
\* lines 75-91: <<raised KeyError, data>>
OldAddPoints(d, lyr, rast, feat, pts) ==
    IF pts = <<>> THEN <<FALSE, d>>
    ELSE LET p == Head(pts)
             z == OldSample(rast, p[1], p[2])
             withXY == DictAppend(DictAppend(d, "X", FloatV(p[1])), "Y", FloatV(p[2]))
         IN IF z[1] THEN <<TRUE, withXY>>
            ELSE OldAddPoints(
                    OldAppendAttrs(DictAppend(withXY, "Z", z[2]), lyr.fields, lyr.fields, feat),
                    lyr, rast, feat, Tail(pts))

\* line 92
DataFrame(d) ==
    IF ~SameLengths(d) THEN Raise("ValueError", "All arrays must be of the same length", <<>>)
    ELSE Return(Frame(d, "none"))

-----------------------------------------------------------------------------
(* GeoDataFrameToQgsLayer: m2l/main/vectorLayerWrapper.py 249-419 *)

WkbType(f, m, z) == [family |-> f, multi |-> m, z |-> z]

\* lines 286-287
Skipped(g) == g = NullGeom \/ isEmpty(g)

\* lines 285-305: the geometry the scan stops at; 0 if there is none
FirstUsable(series) ==
    LET usable == {n \in 1..Len(series) : ~Skipped(series[n]) /\ series[n].family \in Families}
    IN IF usable = {} THEN 0 ELSE CHOOSE n \in usable : \A o \in usable : n <= o

\* lines 281-321 with any_multi and has_z gathered over the whole series
_infer_wkb_any(series) ==
    LET n == FirstUsable(series)
    IN IF n = 0 THEN WkbType("LineString", FALSE, FALSE)
       ELSE WkbType(series[n].family,
                    \E o \in 1..Len(series) : ~Skipped(series[o]) /\ series[o].multi,
                    \E o \in 1..Len(series) : ~Skipped(series[o]) /\ series[o].z)

\* lines 281-321
_infer_wkb(series) ==
    LET n == FirstUsable(series)
    IN IF n = 0 THEN WkbType("LineString", FALSE, FALSE)
       ELSE WkbType(series[n].family, series[n].multi, series[n].z)

\* lines 342-351
_qvariant_type(dtype) ==
    IF dtype = "int64" THEN "Int"
    ELSE IF dtype = "float64" THEN "Double"
    ELSE IF dtype = "bool" THEN "Bool"
    ELSE IF dtype = "datetime64" THEN "DateTime"
    ELSE "String"

\* line 340
NonGeomCols(t) == SelectSeq(t.cols, LAMBDA c : c # "geometry")

\* lines 339-354
BuildFields(t) ==
    LET cs == NonGeomCols(t)
    IN [c \in 1..Len(cs) |-> Field(cs[c], _qvariant_type(t.dtype[cs[c]]))]

\* lines 325-336 falling back to the project's CRS
BuildCrsProject(t) == IF t.crs = "none" THEN "project" ELSE t.crs

\* lines 325-336: the authid of the QgsCoordinateReferenceSystem built from
\* gdf.crs, "" for an invalid one; to_wkt() may raise, and to_epsg() may then
\* give a code or nothing
BuildCrs(t) ==
    CASE t.crs = "none" -> ""
      [] t.crs = "no WKT, EPSG:28350" -> "EPSG:28350"
      [] t.crs = "no WKT, no EPSG" -> ""
      [] OTHER -> t.crs

\* lines 381-387 left out
PromoteNever(g) == g

\* lines 381-387 unwrapping what is already multi
PromoteToggle(g) == IF g.family \in Families THEN [g EXCEPT !.multi = ~g.multi] ELSE g

\* lines 381-387: single -> multi; the container holds the one part
Promote(g) ==
    IF ~g.multi /\ g.family \in Families
    THEN [g EXCEPT !.multi = TRUE, !.parts = IF isEmpty(g) THEN <<>> ELSE <<g.parts[1]>>]
    ELSE g

\* lines 392-406: attributes in declared order
RowAttrs(t, row) ==
    LET cs == NonGeomCols(t)
    IN [c \in 1..Len(cs) |-> row[cs[c]]]

\* line 417
Percent(done, total) == (100 * done) \div total

\* column dtypes of a frame; "category" stands for the pandas extension dtypes,
\* which numpy cannot interpret
Dtypes == {"bool", "int64", "float64", "datetime64", "timedelta64", "object", "category"}

\* a value of a column of the dtype
Cell(dtype) ==
    CASE dtype = "bool" -> [k |-> "bool", b |-> TRUE]
      [] dtype = "int64" -> IntV(7)
      [] dtype = "float64" -> FloatV(7)
      [] dtype = "datetime64" -> [k |-> "datetime", t |-> 7]
      [] dtype = "timedelta64" -> [k |-> "timedelta", t |-> 7]
      [] OTHER -> StrV("a")

\* the frame with one more column, of the dtype, at the end
WithColumn(df, col, dtype) ==
    [df EXCEPT !.cols = Append(df.cols, col),
               !.dtype = [c \in DOMAIN df.dtype \cup {col} |->
                            IF c = col THEN dtype ELSE df.dtype[c]],
               !.rows = [n \in 1..Len(df.rows) |->
                           [c \in DOMAIN df.rows[n] \cup {col} |->
                               IF c = col THEN Cell(dtype) ELSE df.rows[n][c]]]]

\* input tables: shapely geometries (None is NullGeom), an optional id column
Malformed(g, e) == [g EXCEPT !.enc = e]
TableGeometries ==
    Geometries \o <<Malformed(Line2, "wkt"), Malformed(Line2, "none")>>

GeoTable(cs, crs, gs) ==
    [present |-> TRUE, cols |-> cs,
     dtype |-> [col \in Range(cs) |-> IF col = "geometry" THEN "geometry" ELSE "int64"],
     rows |-> [n \in 1..Len(gs) |->
                 [c \in Range(cs) |-> IF c = "geometry" THEN GeomV(gs[n]) ELSE IntV(n)]],
     crs |-> crs]

IsInputTable(t) ==
    \E cs \in {<<"geometry">>, <<"id", "geometry">>}, crs \in {"none", "EPSG:4326"},
       n \in 0..MaxRows :
        \E ix \in Picks(TableGeometries, n) : t = GeoTable(cs, crs, Pick(TableGeometries, ix))

-----------------------------------------------------------------------------
(* dataframeToQgsLayer: m2l/main/vectorLayerWrapper.py 424-602 *)

\* lines 424-452; np.issubdtype (line 427) raises TypeError on a dtype numpy
\* cannot interpret
_qvariant_type_from_dtype(dtype) ==
    IF dtype = "category" THEN "TypeError"
    ELSE IF dtype = "int64" THEN "LongLong"
    ELSE IF dtype = "float64" THEN "Double"
    ELSE IF dtype = "bool" THEN "Bool"
    ELSE IF dtype = "datetime64" THEN "DateTime"
    ELSE "String"

\* lines 455-464
_fields_from_dataframe(df, drop_cols) ==
    LET kept == SelectSeq(df.cols, LAMBDA c : c \notin drop_cols)
    IN [c \in 1..Len(kept) |-> Field(kept[c], _qvariant_type_from_dtype(df.dtype[kept[c]]))]

\* lines 508-511; x_col is "X" and y_col is "Y"
DropCols(a) ==
    IF a.include_coords_in_attrs THEN {}
    ELSE {"X", "Y", a.z_col, a.m_col} \ {"None"}

\* lines 516-517
HasZ(df, a) == a.z_col # "None" /\ a.z_col \in Range(df.cols)
HasM(df, a) == a.m_col # "None" /\ a.m_col \in Range(df.cols)

\* lines 518-525
PointWkb(df, a) == [family |-> "Point", multi |-> FALSE, z |-> HasZ(df, a), m |-> HasM(df, a)]

\* pd.isna
isna(v) == v.k = "null"

\* lines 558-567: the dimensions of the point built for a row; setM (line 565)
\* stores a value in a 2D QgsPoint without giving it an M dimension
PointOf(df, a, row) ==
    IF HasZ(df, a) /\ ~isna(row[a.z_col]) /\ HasM(df, a) /\ ~isna(row[a.m_col])
    THEN [family |-> "Point", multi |-> FALSE, z |-> TRUE, m |-> TRUE]
    ELSE IF HasZ(df, a) /\ ~isna(row[a.z_col])
    THEN [family |-> "Point", multi |-> FALSE, z |-> TRUE, m |-> FALSE]
    ELSE IF HasM(df, a) /\ ~isna(row[a.m_col])
    THEN [family |-> "Point", multi |-> FALSE, z |-> FALSE, m |-> FALSE]
    ELSE [family |-> "Point", multi |-> FALSE, z |-> FALSE, m |-> FALSE]

\* lines 573-593
PointAttrs(fields, row) ==
    [c \in 1..Len(fields) |-> IF fields[c].name \in DOMAIN row THEN row[fields[c].name] ELSE Null]

\* line 597
BatchSize == 1000

\* line 598
BatchPercent(n, total) == (100 * n) \div (IF total > 1 THEN total ELSE 1)

\* input frames: coordinate columns and a text column
PointCols == {<<"X", "Y", "name">>, <<"X", "Y", "Z", "name">>, <<"X", "Y", "M", "name">>,
              <<"X", "Y", "Z", "M", "name">>}
RowKinds == <<"full", "no x", "no z", "no m", "no z, no m">>

PointRow(cs, kind, n) ==
    [c \in Range(cs) |->
        CASE c = "X" -> IF kind = "no x" THEN Null ELSE FloatV(n)
          [] c = "Y" -> FloatV(n)
          [] c = "Z" -> IF kind \in {"no z", "no z, no m"} THEN Null ELSE FloatV(50 + n)
          [] c = "M" -> IF kind \in {"no m", "no z, no m"} THEN Null ELSE FloatV(90 + n)
          [] OTHER -> StrV(Labels[n])]

PointTable(cs, kinds) ==
    [present |-> TRUE, cols |-> cs,
     dtype |-> [c \in Range(cs) |-> IF c = "name" THEN "object" ELSE "float64"],
     rows |-> [n \in 1..Len(kinds) |-> PointRow(cs, kinds[n], n)],
     crs |-> "none"]

-----------------------------------------------------------------------------
(* dataframeToQgsTable: m2l/main/vectorLayerWrapper.py 655-696 *)

\* lines 661-665
to_qvariant_type(dtype) ==
    IF dtype = "bool" THEN "Bool"
    ELSE IF dtype = "int64" THEN "LongLong"
    ELSE IF dtype = "float64" THEN "Double"
    ELSE "String"

\* lines 667-668
TableFields(df) ==
    [c \in 1..Len(df.cols) |-> Field(df.cols[c], to_qvariant_type(df.dtype[df.cols[c]]))]

\* lines 684-692
TableAttrs(df, row) == [c \in 1..Len(df.cols) |-> row[df.cols[c]]]

\* input frames: the thickness table (thickness_calculator.py 359-361)
ThicknessCols == <<"name", "ThicknessMean">>
ThicknessKinds == <<"value", "nan">>

ThicknessTable(kinds) ==
    [present |-> TRUE, cols |-> ThicknessCols,
     dtype |-> [c \in Range(ThicknessCols) |-> IF c = "name" THEN "object" ELSE "float64"],
     rows |-> [n \in 1..Len(kinds) |->
                 [c \in Range(ThicknessCols) |->
                     IF c = "name" THEN StrV(Labels[n])
                     ELSE IF kinds[n] = "nan" THEN Null ELSE FloatV(n)]],
     crs |-> "none"]

-----------------------------------------------------------------------------
(* Placeholders for the inputs an operation does not use *)

NoLayer == [present |-> FALSE, fields |-> <<>>, crs |-> "", feats |-> <<>>]
NoTable == [present |-> FALSE, cols |-> <<>>, dtype |-> <<>>, rows |-> <<>>, crs |-> "none"]
NoMatrix == MScalar("NoneType")
NoArgs == [z_col |-> "None", m_col |-> "None", include_coords_in_attrs |-> FALSE]

Idle ==
    /\ pc = "start" /\ canceled = FALSE /\ i = 0 /\ data = [keys |-> <<>>, col |-> <<>>] /\ rows = <<>>
    /\ sink = [created |-> FALSE, feats |-> <<>>] /\ progress = <<>> /\ polled = 0 /\ result = NoResult

-----------------------------------------------------------------------------
(* matrixToDict as an operation *)

InitMatrixToDict ==
    /\ op = "matrixToDict"
    /\ \/ matrix \in Scalars
       \/ \E n \in 0..MaxRowLen : \E ix \in Picks(ListEntries, n) : \E sh \in {"flat", "nested", "two rows"} :
             matrix = Shaped(sh, Pick(ListEntries, ix))
       \/ \E n \in 1..MaxRowLen : \E ix \in Picks(StrTokens, n) :
             matrix = MStr(Pick(StrTokens, ix))
    /\ layer = NoLayer /\ dtm = NoDtm /\ table = NoTable /\ args = NoArgs
    /\ Idle

MatrixToDict ==
    /\ op = "matrixToDict" /\ pc = "start"
    /\ result' = matrixToDict(matrix)
    /\ pc' = IF result'.kind = "return" THEN "done" ELSE "error"
    /\ UNCHANGED <<op, canceled, layer, dtm, table, matrix, args, i, data, rows,
                   sink, progress, polled>>

-----------------------------------------------------------------------------
(* The host raises the cancellation flag *)

Converters ==
    {"qgsLayerToGeoDataFrame", "qgsLayerToDataFrame", "map2loop.qgsLayerToDataFrame",
     "GeoDataFrameToQgsLayer",
     "dataframeToQgsLayer", "dataframeToQgsTable"}

\* the answer of a feedback that is never asked (or of the _Dummy feedback, 268-272)
isCanceledNever == FALSE

\* feedback.isCanceled(): lines 373 and 547
isCanceled == canceled

Cancel ==
    /\ op \in Converters /\ pc \in {"start", "loop"} /\ ~canceled
    /\ canceled' = TRUE
    /\ UNCHANGED <<op, pc, layer, dtm, table, matrix, args, i, data, rows, sink,
                   progress, polled, result>>

-----------------------------------------------------------------------------
(* qgsLayerToGeoDataFrame as an operation *)

InitLayerToGdf ==
    /\ op = "qgsLayerToGeoDataFrame"
    /\ \/ IsLayerOver(layer, Schemas, CrsIds, {FALSE})
       \/ IsLayerOver(layer, {<<Field("unit", "String")>>}, CrsIds, {TRUE})
       \/ layer = NoLayer
    /\ dtm = NoDtm /\ table = NoTable /\ matrix = NoMatrix /\ args = NoArgs
    /\ Idle

\* lines 90-96
LayerToGdfStart ==
    /\ op = "qgsLayerToGeoDataFrame" /\ pc = "start"
    /\ IF ~layer.present
       THEN /\ pc' = "done" /\ result' = Return("None") /\ data' = data
       ELSE /\ pc' = "loop" /\ result' = result
            /\ data' = InitColumns(EmptyDict("geometry"), layer.fields)
    /\ UNCHANGED <<op, canceled, layer, dtm, table, matrix, args, i, rows, sink,
                   progress, polled>>

\* lines 97-106: one feature
LayerToGdfStep ==
    /\ op = "qgsLayerToGeoDataFrame" /\ pc = "loop" /\ i < Len(layer.feats)
    /\ data' = GdfAddFeature(data, layer.fields, layer.feats[i + 1])
    /\ i' = i + 1
    /\ UNCHANGED <<op, pc, canceled, layer, dtm, table, matrix, args, rows, sink,
                   progress, polled, result>>

\* line 107
LayerToGdfFinish ==
    /\ op = "qgsLayerToGeoDataFrame" /\ pc = "loop" /\ i = Len(layer.feats)
    /\ result' = GeoDataFrame(data, layer.crs)
    /\ pc' = IF result'.kind = "return" THEN "done" ELSE "error"
    /\ table' = IF result'.kind = "return" THEN result'.value ELSE table
    /\ UNCHANGED <<op, canceled, layer, dtm, matrix, args, i, data, rows, sink,
                   progress, polled>>

\* the caller hands the frame to GeoDataFrameToQgsLayer (extract_contacts.py 109-119)
WriteBack ==
    /\ op = "qgsLayerToGeoDataFrame" /\ pc = "done" /\ layer.present
    /\ op' = "GeoDataFrameToQgsLayer" /\ pc' = "start"
    /\ i' = 0 /\ result' = NoResult
    /\ UNCHANGED <<canceled, layer, dtm, table, matrix, args, data, rows, sink,
                   progress, polled>>

-----------------------------------------------------------------------------
(* qgsLayerToDataFrame as an operation (m2l) *)

InitLayerToDf ==
    /\ op = "qgsLayerToDataFrame"
    /\ \E sc \in Scenes :
          /\ IsLayerOver(layer, VertexSchemas, {sc.crs}, {FALSE}) \/ layer = NoLayer
          /\ dtm = sc.dtm
    /\ table = NoTable /\ matrix = NoMatrix /\ args = NoArgs
    /\ Idle

\* lines 120-217
LayerToDfStart ==
    /\ op = "qgsLayerToDataFrame" /\ pc = "start"
    /\ IF ~layer.present
       THEN pc' = "done" /\ result' = Return("None")
       ELSE pc' = "loop" /\ result' = result
    /\ UNCHANGED <<op, canceled, layer, dtm, table, matrix, args, i, data, rows,
                   sink, progress, polled>>

\* lines 219-240: one feature
LayerToDfStep ==
    /\ op = "qgsLayerToDataFrame" /\ pc = "loop" /\ i < Len(layer.feats)
    /\ rows' = rows \o FeatureRows(layer, dtm, layer.feats[i + 1])
    /\ i' = i + 1
    /\ UNCHANGED <<op, pc, canceled, layer, dtm, table, matrix, args, data, sink,
                   progress, polled, result>>

\* lines 243-247
LayerToDfFinish ==
    /\ op = "qgsLayerToDataFrame" /\ pc = "loop" /\ i = Len(layer.feats)
    /\ table' = RecordsFrame(layer.fields, rows)
    /\ result' = Return(table')
    /\ pc' = "done"
    /\ UNCHANGED <<op, canceled, layer, dtm, matrix, args, i, data, rows, sink,
                   progress, polled>>

-----------------------------------------------------------------------------
(* qgsLayerToDataFrame as an operation (map2loop) *)

InitOldLayerToDf ==
    /\ op = "map2loop.qgsLayerToDataFrame"
    /\ \E sc \in OldScenes :
          /\ IsLayerOver(layer, VertexSchemas, {sc.crs}, {FALSE}) \/ layer = NoLayer
          /\ dtm = sc.dtm
    /\ table = NoTable /\ matrix = NoMatrix /\ args = NoArgs
    /\ Idle

\* lines 49-58
OldLayerToDfStart ==
    /\ op = "map2loop.qgsLayerToDataFrame" /\ pc = "start"
    /\ IF ~layer.present
       THEN /\ pc' = "done" /\ result' = Return("None") /\ data' = data
       ELSE /\ pc' = "loop" /\ result' = result
            /\ data' = InitColumns(DictSet(DictSet(EmptyDict("X"), "Y", <<>>), "Z", <<>>),
                                   layer.fields)
    /\ UNCHANGED <<op, canceled, layer, dtm, table, matrix, args, i, rows, sink,
                   progress, polled>>

\* lines 59-91: one feature
OldLayerToDfStep ==
    /\ op = "map2loop.qgsLayerToDataFrame" /\ pc = "loop" /\ i < Len(layer.feats)
    /\ LET feat == layer.feats[i + 1]
           added == OldAddPoints(data, layer, dtm, feat, OldPoints(feat.geom))
       IN /\ data' = added[2]
          /\ IF added[1]
             THEN /\ pc' = "error" /\ i' = i
                  /\ result' = Raise("KeyError", "1", <<>>)
             ELSE /\ pc' = pc /\ i' = i + 1 /\ result' = result
    /\ UNCHANGED <<op, canceled, layer, dtm, table, matrix, args, rows, sink,
                   progress, polled>>

\* line 92
OldLayerToDfFinish ==
    /\ op = "map2loop.qgsLayerToDataFrame" /\ pc = "loop" /\ i = Len(layer.feats)
    /\ result' = DataFrame(data)
    /\ pc' = IF result'.kind = "return" THEN "done" ELSE "error"
    /\ table' = IF result'.kind = "return" THEN result'.value ELSE table
    /\ UNCHANGED <<op, canceled, layer, dtm, matrix, args, i, data, rows, sink,
                   progress, polled>>

-----------------------------------------------------------------------------
(* GeoDataFrameToQgsLayer as an operation *)

InitGdfToLayer ==
    /\ op = "GeoDataFrameToQgsLayer"
    /\ \/ IsInputTable(table) \/ table = NoTable
       \/ \E dtype \in Dtypes :
          \E crs \in {"none", "EPSG:4326", "no WKT, EPSG:28350", "no WKT, no EPSG"} :
             table = WithColumn(GeoTable(<<"geometry">>, crs, <<Line2>>), "attr", dtype)
    /\ layer = NoLayer /\ dtm = NoDtm /\ matrix = NoMatrix /\ args = NoArgs
    /\ Idle

\* lines 267-370: everything before the row loop
GdfToLayerStart ==
    /\ op = "GeoDataFrameToQgsLayer" /\ pc = "start"
    /\ IF ~table.present
       THEN /\ pc' = "error" /\ sink' = sink
            /\ result' = Raise("ValueError", "GeoDataFrame is None", <<>>)
       ELSE \E created \in BOOLEAN :
              IF created
              THEN /\ pc' = "loop" /\ result' = result
                   /\ sink' = [created |-> TRUE, fields |-> BuildFields(table),
                               wkb |-> _infer_wkb([n \in 1..Len(table.rows) |-> table.rows[n]["geometry"].g]),
                               crs |-> BuildCrs(table), feats |-> <<>>]
              ELSE /\ pc' = "error" /\ sink' = sink
                   /\ result' = Raise(QPE, "Could not create output sink", <<>>)
    /\ UNCHANGED <<op, canceled, layer, dtm, table, matrix, args, i, data, rows,
                   progress, polled>>

\* lines 372-417: one row
GdfToLayerStep ==
    /\ op = "GeoDataFrameToQgsLayer" /\ pc = "loop" /\ i < Len(table.rows)
    /\ polled' = polled + 1
    /\ LET row == table.rows[i + 1]
           geom == row["geometry"].g
           out == IF sink.wkb.multi THEN Promote(geom) ELSE geom
       IN IF isCanceled
          THEN /\ pc' = "done" /\ result' = Return("dest_id")
               /\ UNCHANGED <<i, sink, progress>>
          ELSE IF Skipped(geom)
          THEN /\ i' = i + 1
               /\ UNCHANGED <<pc, result, sink, progress>>
          ELSE IF geom.enc = "none"
          THEN /\ pc' = "error"
               /\ result' = Raise("Exception", "geometry cannot be serialised", <<i + 1>>)
               /\ UNCHANGED <<i, sink, progress>>
          ELSE /\ sink' = [sink EXCEPT !.feats =
                             Append(@, [geom |-> WkbType(out.family, out.multi, out.z), parts |-> out.parts,
                                        via |-> geom.enc, attrs |-> RowAttrs(table, row)])]
               /\ progress' = Append(progress, Percent(i + 1, Len(table.rows)))
               /\ i' = i + 1
               /\ UNCHANGED <<pc, result>>
    /\ UNCHANGED <<op, canceled, layer, dtm, table, matrix, args, data, rows>>

\* line 419
GdfToLayerFinish ==
    /\ op = "GeoDataFrameToQgsLayer" /\ pc = "loop" /\ i = Len(table.rows)
    /\ pc' = "done" /\ result' = Return("dest_id")
    /\ UNCHANGED <<op, canceled, layer, dtm, table, matrix, args, i, data, rows,
                   sink, progress, polled>>

-----------------------------------------------------------------------------
(* dataframeToQgsLayer as an operation *)

InitDfToLayer ==
    /\ op = "dataframeToQgsLayer"
    /\ \/ \E cs \in PointCols, n \in 0..MaxRows : \E ix \in Picks(RowKinds, n) :
             table = PointTable(cs, Pick(RowKinds, ix))
       \/ \E dtype \in Dtypes :
             table = WithColumn(PointTable(<<"X", "Y", "name">>, <<"full">>), "attr", dtype)
       \/ table = NoTable
    /\ args \in [z_col : {"None", "Z"}, m_col : {"None", "M"},
                 include_coords_in_attrs : BOOLEAN]
    /\ layer = NoLayer /\ dtm = NoDtm /\ matrix = NoMatrix
    /\ Idle

\* lines 502-543: everything before the row loop
DfToLayerStart ==
    /\ op = "dataframeToQgsLayer" /\ pc = "start"
    /\ IF ~table.present
       THEN /\ pc' = "error" /\ sink' = sink
            /\ result' = Raise("TypeError", "df must be a pandas.DataFrame", <<>>)
       ELSE IF \E c \in Range(table.cols) \ DropCols(args) :           \* line 513
                 _qvariant_type_from_dtype(table.dtype[c]) = "TypeError"
       THEN /\ pc' = "error" /\ sink' = sink
            /\ result' = Raise("TypeError", "Cannot interpret dtype as a data type", <<>>)
       ELSE \E created \in BOOLEAN :
              IF created
              THEN /\ pc' = "loop" /\ result' = result
                   /\ sink' = [created |-> TRUE,
                               fields |-> _fields_from_dataframe(table, DropCols(args)),
                               wkb |-> PointWkb(table, args),
                               crs |-> "EPSG:4326", feats |-> <<>>]
              ELSE /\ pc' = "error" /\ sink' = sink
                   /\ result' = Raise(QPE, "Could not create feature sink", <<>>)
    /\ UNCHANGED <<op, canceled, layer, dtm, table, matrix, args, i, data, rows,
                   progress, polled>>

\* lines 546-598: one row; a break falls through to lines 600-602
DfToLayerStep ==
    /\ op = "dataframeToQgsLayer" /\ pc = "loop" /\ i < Len(table.rows)
    /\ polled' = polled + 1
    /\ LET row == table.rows[i + 1]
       IN IF isCanceled
          THEN /\ pc' = "done" /\ result' = Return("sink_id")
               /\ progress' = Append(progress, 100)
               /\ UNCHANGED <<i, sink>>
          ELSE IF isna(row["X"]) \/ isna(row["Y"])
          THEN /\ i' = i + 1
               /\ UNCHANGED <<pc, result, sink, progress>>
          ELSE /\ sink' = [sink EXCEPT !.feats =
                             Append(@, [geom |-> PointOf(table, args, row),
                                        attrs |-> PointAttrs(sink.fields, row)])]
               /\ progress' = IF (i + 1) % BatchSize = 0
                              THEN Append(progress, BatchPercent(i + 1, Len(table.rows)))
                              ELSE progress
               /\ i' = i + 1
               /\ UNCHANGED <<pc, result>>
    /\ UNCHANGED <<op, canceled, layer, dtm, table, matrix, args, data, rows>>

\* lines 600-602
DfToLayerFinish ==
    /\ op = "dataframeToQgsLayer" /\ pc = "loop" /\ i = Len(table.rows)
    /\ pc' = "done" /\ result' = Return("sink_id")
    /\ progress' = Append(progress, 100)
    /\ UNCHANGED <<op, canceled, layer, dtm, table, matrix, args, i, data, rows,
                   sink, polled>>

-----------------------------------------------------------------------------
(* dataframeToQgsTable as an operation *)

InitDfToTable ==
    /\ op = "dataframeToQgsTable"
    /\ \/ \E n \in 0..MaxRows : \E ix \in Picks(ThicknessKinds, n) :
             table = ThicknessTable(Pick(ThicknessKinds, ix))
       \/ \E dtype \in Dtypes :
             table = WithColumn(ThicknessTable(<<"value">>), "attr", dtype)
       \/ table = NoTable
    /\ layer = NoLayer /\ dtm = NoDtm /\ matrix = NoMatrix /\ args = NoArgs
    /\ Idle

\* lines 656-678: everything before the row loop
DfToTableStart ==
    /\ op = "dataframeToQgsTable" /\ pc = "start"
    /\ IF ~table.present \/ table.rows = <<>>
       THEN /\ pc' = "error" /\ sink' = sink
            /\ result' = Raise(QPE, "Empty DataFrame.", <<>>)
       ELSE \E created \in BOOLEAN :
              IF created
              THEN /\ pc' = "loop" /\ result' = result
                   /\ sink' = [created |-> TRUE, fields |-> TableFields(table),
                               wkb |-> "NoGeometry", crs |-> "project", feats |-> <<>>]
              ELSE /\ pc' = "error" /\ sink' = sink
                   /\ result' = Raise(QPE, "Canot create output table (sink=None).", <<>>)
    /\ UNCHANGED <<op, canceled, layer, dtm, table, matrix, args, i, data, rows,
                   progress, polled>>

\* lines 681-694: one row
DfToTableStep ==
    /\ op = "dataframeToQgsTable" /\ pc = "loop" /\ i < Len(table.rows)
    /\ sink' = [sink EXCEPT !.feats =
                  Append(@, [attrs |-> TableAttrs(table, table.rows[i + 1])])]
    /\ i' = i + 1
    /\ UNCHANGED <<op, pc, canceled, layer, dtm, table, matrix, args, data, rows,
                   progress, polled, result>>

\* line 696
DfToTableFinish ==
    /\ op = "dataframeToQgsTable" /\ pc = "loop" /\ i = Len(table.rows)
    /\ pc' = "done" /\ result' = Return("dest_id")
    /\ UNCHANGED <<op, canceled, layer, dtm, table, matrix, args, i, data, rows,
                   sink, progress, polled>>

-----------------------------------------------------------------------------
(* qgsRasterToGdalDataset, called repeatedly against one temporary directory.
   dtm is the raster layer of the last call, rows the log of the gdal:translate
   runs so far, i the number of calls made, result the outcome of the last call.
   gdal.OpenEx reports a failure by returning None. *)

\* a raster layer: its id(), isValid(), and whether gdal.OpenEx opens its
\* source()/dataSourceUri() (file-backed) or not (WMS, WCS, virtual)
Raster(id, v, o) == [present |-> TRUE, id |-> id, valid |-> v, open |-> o]

Rasters == {NoDtm} \cup {Raster(id, v, o) : id \in {"a", "b"}, v \in BOOLEAN, o \in BOOLEAN}

\* lines 68-69
TmpPath(id) == "m2l_dtm_" \o id \o ".tif"

\* the file at the path exists once some run of gdal:translate has written it
Exists(log, path) == \E n \in 1..Len(log) : log[n].path = path /\ log[n].written

InitRasterToGdal ==
    /\ op = "qgsRasterToGdalDataset"
    /\ layer = NoLayer /\ dtm = NoDtm /\ table = NoTable /\ matrix = NoMatrix /\ args = NoArgs
    /\ Idle

\* lines 30-87: one call; export is what processing.run("gdal:translate") does
RasterToGdalCall ==
    /\ op = "qgsRasterToGdalDataset" /\ i < MaxCalls
    /\ \E rlayer \in Rasters : \E export \in {"raises", "written", "nothing"} :
         /\ dtm' = rlayer
         /\ IF ~rlayer.present \/ ~rlayer.valid                      \* lines 36-37
            THEN rows' = rows /\ result' = Return("None")
            ELSE IF rlayer.open                                      \* lines 51-65
            THEN rows' = rows /\ result' = Return(rlayer.id)
            ELSE LET tmp_path == TmpPath(rlayer.id)
                     run == [id |-> rlayer.id, path |-> tmp_path,
                             written |-> export = "written"]
                 IN /\ rows' = Append(rows, run)                     \* lines 72-84
                    /\ result' =
                         IF export = "raises"
                         THEN Raise("QgsProcessingException", "gdal:translate", <<>>)
                         ELSE IF Exists(rows', tmp_path)             \* lines 86-87
                         THEN Return(tmp_path)
                         ELSE Return("None")
    /\ pc' = IF result'.kind = "raise" THEN "error" ELSE "done"
    /\ i' = i + 1
    /\ UNCHANGED <<op, canceled, layer, table, matrix, args, data, sink, progress, polled>>

-----------------------------------------------------------------------------
(* Lists of unit names: gui/map2loop_dockwidget.py 190-223,
   processing/algorithms/user_defined_sorter.py 71-109,
   processing/algorithms/thickness_calculator.py 284-293.
   A text is the sequence of its characters; matrix holds the entries handed
   in, result the list the code builds from them. *)

\* str.strip
strip_none(text) == text

strip(text) ==
    LET ink == {n \in 1..Len(text) : text[n] # " "}
    IN IF ink = {} THEN <<>>
       ELSE SubSeq(text, CHOOSE n \in ink : \A o \in ink : n <= o,
                         CHOOSE n \in ink : \A o \in ink : n >= o)

\* "B", " a ", "A", "b", "", " "
UnitEntries == << <<"B">>, <<" ", "a", " ">>, <<"A">>, <<"b">>, <<>>, <<" ">> >>

\* dockwidget 206-210: non-blank entries, stripped
Stripped(units) ==
    LET kept == SelectSeq(units, LAMBDA u : u # <<>> /\ strip(u) # <<>>)
    IN [n \in 1..Len(kept) |-> strip(kept[n])]

\* dockwidget 212-217: first occurrences, in order
FirstSeen(units) ==
    LET first == {n \in 1..Len(units) : \A o \in 1..(n - 1) : units[o] # units[n]}
    IN [n \in 1..Cardinality(first) |->
          units[CHOOSE k \in first : Cardinality({o \in first : o <= k}) = n]]

\* the list each place builds from the entries
Decode(place, units) ==
    CASE place = "get_stratigraphic_column_list" -> FirstSeen(Stripped(units))
      [] place = "UserDefinedStratigraphyAlgorithm" ->                \* lines 76-84
            Stripped(units)
      [] OTHER -> SelectSeq(units, LAMBDA u : u # <<>>)                \* line 287

DecodePlaces ==
    {"get_stratigraphic_column_list", "UserDefinedStratigraphyAlgorithm",
     "ThicknessCalculatorAlgorithm.stratigraphic_order"}

InitDecode ==
    /\ op \in DecodePlaces
    /\ \/ \E n \in 0..MaxUnits : \E ix \in Picks(UnitEntries, n) :
             matrix = MList(Pick(UnitEntries, ix))
       \/ matrix = MList(SubSeq(UnitEntries, 1, 5))
    /\ layer = NoLayer /\ dtm = NoDtm /\ table = NoTable /\ args = NoArgs
    /\ Idle

DecodeUnits ==
    /\ op \in DecodePlaces /\ pc = "start"
    /\ result' = Return(Decode(op, matrix.items))
    /\ pc' = "done"
    /\ UNCHANGED <<op, canceled, layer, dtm, table, matrix, args, i, data, rows,
                   sink, progress, polled>>

-----------------------------------------------------------------------------
(* The processing algorithms around the converters: what processAlgorithm
   returns, and the bounding box the thickness calculator is built with *)

\* extract_basal_contacts.py 176-184: the GeoDataFrameToQgsLayer call made by
\* BasalContactsAlgorithm.processAlgorithm has returned; the algorithm returns
BasalContactsReturn ==
    /\ op = "GeoDataFrameToQgsLayer" /\ pc = "done"
    /\ op' = "BasalContactsAlgorithm"
    /\ result' = Return([BASAL_CONTACTS |-> result.value])
    /\ UNCHANGED <<pc, canceled, layer, dtm, table, matrix, args, i, data, rows, sink,
                   progress, polled>>

\* sampler.py 145-151: the parameters; DTM and GEOLOGY may be None
InitSampler ==
    /\ op = "SamplerAlgorithm"
    /\ args \in [SAMPLER_TYPE : {0, 1}, DTM : BOOLEAN, GEOLOGY : BOOLEAN]
    /\ \E c \in CrsIds : layer = Layer(<<>>, c, FALSE, <<Line2>>)
    /\ dtm = NoDtm /\ table = NoTable /\ matrix = NoMatrix
    /\ Idle

\* sampler.py 138-210; the samples are what the map2loop sampler returns
SamplerProcess ==
    /\ op = "SamplerAlgorithm" /\ pc = "start"
    /\ IF ~args.DTM                                           \* line 155: dtm.source()
       THEN /\ pc' = "error" /\ sink' = sink
            /\ result' = Raise("AttributeError", "'NoneType' object has no attribute 'source'", <<>>)
       ELSE \E n \in 0..MaxRows, hasZ \in BOOLEAN, created \in BOOLEAN :
              IF ~created /\ n > 0                            \* line 205: sink.addFeature
              THEN /\ pc' = "error" /\ sink' = sink
                   /\ result' = Raise("AttributeError", "'NoneType' object has no attribute 'addFeature'", <<>>)
              ELSE /\ pc' = "done"
                   /\ sink' = [created |-> created,
                               fields |-> <<Field("ID", "QString"), Field("X", "Float"),
                                            Field("Y", "Float"), Field("Z", "Float"),
                                            Field("featureId", "QString")>>,
                               wkb |-> [family |-> "Point", multi |-> FALSE, z |-> hasZ],
                               crs |-> layer.crs,
                               feats |-> [k \in 1..n |->
                                            [geom |-> [family |-> "Point", multi |-> FALSE, z |-> hasZ],
                                             attrs |-> <<StrV("id"), FloatV(k), FloatV(k),
                                                         FloatV(IF hasZ THEN 100 + k ELSE 0),
                                                         StrV("fid")>>]]]
                   /\ result' = Return([SAMPLED_CONTACTS |-> IF created THEN "dest_id" ELSE "None"])
    /\ UNCHANGED <<op, canceled, layer, dtm, table, matrix, args, i, data, rows,
                   progress, polled>>

\* geology_layer.extent() as the box of thickness_calculator.py 254-260: the
\* smallest rectangle around the vertices of the layer; the null rectangle of
\* a layer without vertices reads 0 everywhere
Extent(lyr) ==
    LET pts == UNION {Range(Flatten(lyr.feats[n].geom.parts)) : n \in 1..Len(lyr.feats)}
        lo(k) == IF pts = {} THEN 0 ELSE CHOOSE v \in {p[k] : p \in pts} : \A p \in pts : v <= p[k]
        hi(k) == IF pts = {} THEN 0 ELSE CHOOSE v \in {p[k] : p \in pts} : \A p \in pts : v >= p[k]
    IN [minx |-> Num(lo(1)), miny |-> Num(lo(2)), maxx |-> Num(hi(1)), maxy |-> Num(hi(2))]

\* thickness_calculator.py 236-252: bounding_box_type 0 reads the geology
\* layer, 1 the matrix of the user
InitThickness ==
    /\ op = "ThicknessCalculatorAlgorithm"
    /\ \/ /\ args = [bounding_box_type |-> 0]
          /\ IsLayerOver(layer, {<<>>}, {"EPSG:4326"}, {FALSE})
          /\ matrix = NoMatrix
       \/ /\ args = [bounding_box_type |-> 1]
          /\ layer = NoLayer
          /\ \E n \in 0..MaxRowLen : \E ix \in Picks(ListEntries, n) :
                matrix = MList(Pick(ListEntries, ix))
    /\ dtm = NoDtm /\ table = NoTable
    /\ Idle

\* thickness_calculator.py 252-271, then 328-347: result is the bounding_box
\* the calculator is built with
ThicknessBoundingBox ==
    /\ op = "ThicknessCalculatorAlgorithm" /\ pc = "start"
    /\ result' = IF args.bounding_box_type = 0
                 THEN Return(Extent(layer))
                 ELSE IF matrix.items = <<>>                  \* lines 264-265
                 THEN Raise(QPE, "Bounding box is required", <<>>)
                 ELSE matrixToDict(matrix)
    /\ pc' = IF result'.kind = "return" THEN "done" ELSE "error"
    /\ UNCHANGED <<op, canceled, layer, dtm, table, matrix, args, i, data, rows,
                   sink, progress, polled>>

-----------------------------------------------------------------------------
(* Specifications *)

\* the layer <-> GeoDataFrame converters
SpecGeo ==
    /\ InitLayerToGdf \/ InitGdfToLayer
    /\ [][\/ Cancel
          \/ LayerToGdfStart \/ LayerToGdfStep \/ LayerToGdfFinish \/ WriteBack
          \/ GdfToLayerStart \/ GdfToLayerStep \/ GdfToLayerFinish]_vars

\* both copies of qgsLayerToDataFrame
SpecVertex ==
    /\ InitLayerToDf \/ InitOldLayerToDf
    /\ [][\/ Cancel
          \/ LayerToDfStart \/ LayerToDfStep \/ LayerToDfFinish
          \/ OldLayerToDfStart \/ OldLayerToDfStep \/ OldLayerToDfFinish]_vars

\* the DataFrame writers
SpecFrames ==
    /\ InitDfToLayer \/ InitDfToTable
    /\ [][\/ Cancel
          \/ DfToLayerStart \/ DfToLayerStep \/ DfToLayerFinish
          \/ DfToTableStart \/ DfToTableStep \/ DfToTableFinish]_vars

SpecBBox == InitMatrixToDict /\ [][MatrixToDict]_vars

SpecRaster == InitRasterToGdal /\ [][RasterToGdalCall]_vars

SpecUnits == InitDecode /\ [][DecodeUnits]_vars

-----------------------------------------------------------------------------
Init ==
    \/ InitMatrixToDict
    \/ InitLayerToGdf \/ InitGdfToLayer
    \/ InitLayerToDf \/ InitOldLayerToDf
    \/ InitDfToLayer \/ InitDfToTable
    \/ InitRasterToGdal
    \/ InitDecode
    \/ InitSampler \/ InitThickness

Next ==
    \/ MatrixToDict
    \/ Cancel
    \/ LayerToGdfStart \/ LayerToGdfStep \/ LayerToGdfFinish \/ WriteBack
    \/ GdfToLayerStart \/ GdfToLayerStep \/ GdfToLayerFinish
    \/ LayerToDfStart \/ LayerToDfStep \/ LayerToDfFinish
    \/ OldLayerToDfStart \/ OldLayerToDfStep \/ OldLayerToDfFinish
    \/ DfToLayerStart \/ DfToLayerStep \/ DfToLayerFinish
    \/ DfToTableStart \/ DfToTableStep \/ DfToTableFinish
    \/ RasterToGdalCall
    \/ DecodeUnits
    \/ BasalContactsReturn \/ SamplerProcess \/ ThicknessBoundingBox

Spec == Init /\ [][Next]_vars

-----------------------------------------------------------------------------
(* Properties *)

\* rings and vertices of a geometry in the order the specification gives:
\* part after part, inside a part the exterior ring first
Rings(g) == Concat(g.parts)
Vertices(g) == Concat(Rings(g))

\* <<feature number, vertex>> of every vertex of the first n features
RECURSIVE VerticesUpTo(_, _)
VerticesUpTo(lyr, n) ==
    IF n = 0 THEN <<>>
    ELSE VerticesUpTo(lyr, n - 1)
         \o [v \in 1..Len(Vertices(lyr.feats[n].geom)) |-> <<n, Vertices(lyr.feats[n].geom)[v]>>]

OneFamily(lyr) ==
    \E f \in Families : \A n \in 1..Len(lyr.feats) : lyr.feats[n].geom.family = f

SameUpToCoercion(a, b) ==
    \/ a = b
    \/ a.k \in {"int", "float"} /\ b.k \in {"int", "float"} /\ a.i = b.i

\* C1: a layer of one geometry family with a CRS, converted to a frame and
\* written back without cancellation, gives a sink with as many features as the
\* layer, the same attribute values (up to type coercion) and the same family.
C1_RoundTrip ==
    (/\ op \in {"qgsLayerToGeoDataFrame", "GeoDataFrameToQgsLayer"}
     /\ layer.present /\ layer.crs # "" /\ OneFamily(layer) /\ ~canceled)
    => /\ pc = "error" => result.msg = "Could not create output sink"
       /\ (op = "GeoDataFrameToQgsLayer" /\ pc = "done")
          => /\ Len(sink.feats) = Len(layer.feats)
             /\ \A n \in 1..Len(sink.feats) :
                   /\ sink.feats[n].geom.family = layer.feats[n].geom.family
                   /\ Len(sink.feats[n].attrs) = Len(layer.fields)
                   /\ \A c \in 1..Len(layer.fields) :
                         SameUpToCoercion(layer.feats[n].attrs[c], sink.feats[n].attrs[c])

OneBaseFamily(t) ==
    \E f \in Families : \A n \in 1..Len(t.rows) :
        Skipped(t.rows[n]["geometry"].g) \/ t.rows[n]["geometry"].g.family = f

MixesSingleAndMulti(t) ==
    \E a, b \in 1..Len(t.rows) :
        /\ ~Skipped(t.rows[a]["geometry"].g) /\ t.rows[a]["geometry"].g.multi
        /\ ~Skipped(t.rows[b]["geometry"].g) /\ ~t.rows[b]["geometry"].g.multi

\* C2: when the non-empty geometries of a frame share one base family, every
\* feature GeoDataFrameToQgsLayer writes has the multiplicity of the sink's
\* type, and a frame mixing single and multi instances gets a multi sink.
C2_OneSinkType ==
    (op = "GeoDataFrameToQgsLayer" /\ sink.created /\ OneBaseFamily(table))
    => /\ \A n \in 1..Len(sink.feats) : sink.feats[n].geom.multi = sink.wkb.multi
       /\ MixesSingleAndMulti(table) => sink.wkb.multi

\* C3: qgsLayerToDataFrame (m2l) emits one row per vertex, in feature order then
\* vertex order (rings of a polygon exterior first), each row carrying the
\* attributes of its feature unchanged.
C3_VertexRows ==
    (op = "qgsLayerToDataFrame" /\ layer.present /\ pc \in {"loop", "done"})
    => LET expected == VerticesUpTo(layer, i)
           names == Range(FieldNames(layer.fields))
       IN /\ Len(rows) = Len(expected)
          /\ \A r \in 1..Len(rows) :
                /\ \A c \in 1..Len(layer.fields) :
                      rows[r][layer.fields[c].name] = layer.feats[expected[r][1]].attrs[c]
                /\ "X" \notin names => rows[r]["X"] = FloatV(expected[r][2][1])
                /\ "Y" \notin names => rows[r]["Y"] = FloatV(expected[r][2][2])
          /\ pc = "done" => table.rows = rows

\* C3: the two-part line with parts of 3 and 4 vertices has given 7 rows
C3_Witness ==
    /\ op = "qgsLayerToDataFrame" /\ pc = "done"
    /\ Len(layer.feats) = 2 /\ layer.feats[1].geom = PolygonHole
    /\ layer.feats[2].geom = MultiLine34
    /\ Len(table.rows) = 8 + 7

\* C4: in every row of qgsLayerToDataFrame (m2l) X and Y are the coordinates of
\* the row's vertex and, without a DTM, Z is 0, whatever the layer's fields are called.
C4_Coordinates ==
    (op = "qgsLayerToDataFrame" /\ layer.present /\ pc \in {"loop", "done"})
    => LET expected == VerticesUpTo(layer, i)
       IN \A r \in 1..Len(rows) :
            /\ r <= Len(expected)
            /\ rows[r]["X"] = FloatV(expected[r][2][1])
            /\ rows[r]["Y"] = FloatV(expected[r][2][2])
            /\ ~dtm.present => rows[r]["Z"] = FloatV(0)

\* the lookup at a vertex fails: the transform raises, the raster reports no
\* valid data at the coordinate, or it returns no bands
FailsAt(srcCrs, d, x, y) ==
    LET moved == srcCrs # "" /\ d.crs # "" /\ srcCrs # d.crs
        t == IF moved THEN Transform(d, x, y) ELSE <<FALSE, x, y>>
    IN \/ t[1]
       \/ ~Identify(d, t[2], t[3]).valid
       \/ Identify(d, t[2], t[3]).res = <<>>

NoCoordinateFields(lyr) == Range(FieldNames(lyr.fields)) \cap {"X", "Y", "Z"} = {}

\* C5: with a DTM, in both copies of qgsLayerToDataFrame, the Z of a vertex
\* whose lookup fails (transform failure, no valid data, no bands) is the
\* sentinel -9999, no exception escapes and the conversion goes on.
C5_SentinelOnFailure ==
    (/\ op \in {"qgsLayerToDataFrame", "map2loop.qgsLayerToDataFrame"}
     /\ layer.present /\ dtm.present /\ NoCoordinateFields(layer))
    => /\ pc # "error"
       /\ op = "qgsLayerToDataFrame"
          => \A r \in 1..Len(rows) :
                FailsAt(layer.crs, dtm, rows[r]["X"].i, rows[r]["Y"].i)
                => rows[r]["Z"] = FloatV(Sentinel)
       /\ (op = "map2loop.qgsLayerToDataFrame" /\ pc # "start")
          => \A r \in 1..Len(data.col["Z"]) :
                FailsAt(layer.crs, dtm, data.col["X"][r].i, data.col["Y"][r].i)
                => data.col["Z"][r] = IntV(Sentinel)

\* the row matrixToDict is documented to read: the first row of a nested
\* matrix, the flat sequence itself, or the pieces of a comma-separated string
InputRow(m) ==
    IF m.t = "str" THEN m.toks
    ELSE IF m.items # <<>> /\ m.items[1].e = "list" THEN m.items[1].items
    ELSE m.items

IsNumber(e) == e.e \in {"num", "numstr"}

FourNumbers(m) ==
    /\ m.t \in {"list", "str"}
    /\ Len(InputRow(m)) >= 4
    /\ \A n \in 1..4 : IsNumber(InputRow(m)[n])

InOrder(m) ==
    [minx |-> InputRow(m)[1].n, miny |-> InputRow(m)[2].n,
     maxx |-> InputRow(m)[3].n, maxy |-> InputRow(m)[4].n]

\* C6: a box returned by matrixToDict holds the four parsed numbers in the order
\* given and satisfies minx < maxx and miny < maxy; four numbers violating either
\* inequality give the "Invalid bounding box" error naming the box as parsed.
C6_ValidOrRejected ==
    (op = "matrixToDict" /\ pc # "start")
    => /\ result.kind = "return"
          => /\ FourNumbers(matrix)
             /\ result.value = InOrder(matrix)
             /\ Lt(result.value.minx, result.value.maxx)
             /\ Lt(result.value.miny, result.value.maxy)
       /\ (/\ FourNumbers(matrix)
           /\ ~(/\ Lt(InOrder(matrix).minx, InOrder(matrix).maxx)
                /\ Lt(InOrder(matrix).miny, InOrder(matrix).maxy)))
          => result = Raise(QPE, "Invalid bounding box", <<InOrder(matrix)>>)

\* C6: the flat list [0, 1, 1, 0] (miny > maxy) has been rejected
C6_Witness ==
    /\ op = "matrixToDict" /\ pc = "error"
    /\ matrix = MList(<<ENum(0), ENum(1), ENum(1), ENum(0)>>)
    /\ result.msg = "Invalid bounding box"

\* the three accepted shapes: [[a, b, c, d]], [a, b, c, d] and "a,b,c,d"
AcceptedShape(m) ==
    \/ /\ m.t = "list" /\ Len(m.items) = 1 /\ m.items[1].e = "list"
       /\ Len(m.items[1].items) = 4 /\ \A n \in 1..4 : IsNumber(m.items[1].items[n])
    \/ /\ m.t = "list" /\ Len(m.items) = 4 /\ \A n \in 1..4 : IsNumber(m.items[n])
    \/ /\ m.t = "str" /\ Len(m.toks) = 4 /\ \A n \in 1..4 : IsNumber(m.toks[n])

\* C7: every input that is not of an accepted shape makes matrixToDict raise
\* QgsProcessingException (fewer than 4 values: the "needs 4 numbers" message);
\* none is accepted and none fails with another kind of error.
C7_OtherShapesRejected ==
    (op = "matrixToDict" /\ pc # "start" /\ ~AcceptedShape(matrix))
    => /\ result.kind = "raise"
       /\ result.exc = QPE
       /\ (matrix.t = "list" /\ Len(InputRow(matrix)) < 4) => result.msg = "needs 4 numbers"

EnumMessage == "read with parameterAsEnum"

\* C8: an int handed to matrixToDict is rejected with the "read with
\* parameterAsEnum" message whatever else is true of it, and no value that is not
\* an int (python counts bool as one) gets that message.
C8_IntGuardFirst ==
    (op = "matrixToDict" /\ pc # "start")
    => /\ matrix.t = "int" => result = Raise(QPE, EnumMessage, <<>>)
       /\ (result.kind = "raise" /\ result.msg = EnumMessage) => matrix.t \in {"int", "bool"}
       /\ matrix.t \notin {"int", "bool"}
          => (result.kind = "raise" => result.msg # EnumMessage)

\* C8: the enum index 1 has been rejected
C8_Witness ==
    /\ op = "matrixToDict" /\ pc = "error" /\ matrix = MInt(1)
    /\ result.msg = EnumMessage

Reverse == {"GeoDataFrameToQgsLayer", "dataframeToQgsLayer"}

\* C9: in GeoDataFrameToQgsLayer and dataframeToQgsLayer, a step taken inside
\* the row loop once cancellation is raised adds nothing to the sink, removes
\* nothing from it, and ends the call with its normal result, not an error.
C9_CancelReturns ==
    [][(op \in Reverse /\ pc = "loop" /\ canceled)
       => /\ sink' = sink
          /\ pc' = "done"
          /\ result' = Return(IF op = "GeoDataFrameToQgsLayer" THEN "dest_id" ELSE "sink_id")]_vars

\* C9: GeoDataFrameToQgsLayer was cancelled after the first of two rows
C9_Witness ==
    /\ op = "GeoDataFrameToQgsLayer" /\ canceled /\ pc = "done"
    /\ Len(table.rows) = 2 /\ i = 1 /\ Len(sink.feats) = 1
    /\ result = Return("dest_id")

M2lConverters == Converters \ {"map2loop.qgsLayerToDataFrame"}

\* the collection a converter iterates
Collection ==
    IF op \in {"qgsLayerToGeoDataFrame", "qgsLayerToDataFrame"} THEN layer.feats
    ELSE table.rows

GdfRunning == op = "GeoDataFrameToQgsLayer" /\ sink.created

RowGeom(n) == table.rows[n]["geometry"].g

Usable(g) == g # NullGeom /\ g.parts # <<>>

\* the rows among the first n whose geometry is neither null nor empty, in order
UsableRows(n) == SelectSeq([k \in 1..n |-> k], LAMBDA k : Usable(RowGeom(k)))

\* C11: a row of GeoDataFrameToQgsLayer whose geometry can be read neither from
\* its WKB nor from its WKT does not end the call: once the sink exists the call
\* never raises, and every written feature was read from WKB, or from WKT when
\* WKB failed.
C11_BadRowNonFatal ==
    GdfRunning
    => /\ pc # "error"
       /\ \A k \in 1..Len(sink.feats) :
             sink.feats[k].via = RowGeom(UsableRows(i)[k]).enc
       /\ pc = "done" /\ ~canceled => i = Len(table.rows)

\* C12: when an uncancelled call of GeoDataFrameToQgsLayer has ended, the
\* features of the sink are, in row order, exactly the rows whose geometry is
\* neither null nor empty, each with one attribute per schema field in schema
\* order, and the schema is the frame's non-geometry columns in order.
C12_ExactlyUsableRows ==
    (GdfRunning /\ ~canceled /\ pc \in {"done", "error"})
    => LET w == UsableRows(Len(table.rows))
       IN /\ Len(sink.feats) = Len(w)
          /\ \A k \in 1..Len(sink.feats) :
                /\ sink.feats[k].geom.family = RowGeom(w[k]).family
                /\ Concat(Concat(sink.feats[k].parts)) = Concat(Concat(RowGeom(w[k]).parts))
                /\ Len(sink.feats[k].attrs) = Len(sink.fields)
                /\ \A c \in 1..Len(sink.fields) :
                      sink.feats[k].attrs[c] = table.rows[w[k]][sink.fields[c].name]
          /\ [c \in 1..Len(sink.fields) |-> sink.fields[c].name]
                = SelectSeq(table.cols, LAMBDA c : c # "geometry")

\* C13: the sink type of GeoDataFrameToQgsLayer is that of the first geometry
\* that is neither null nor empty: its base shape, multi iff it is multi, Z iff
\* it has Z; without such a geometry it is single 2D LineString and the inference
\* raises nothing.
C13_FirstDecides ==
    GdfRunning
    => LET w == UsableRows(Len(table.rows))
       IN /\ w # <<>> => sink.wkb = [family |-> RowGeom(w[1]).family,
                                     multi |-> RowGeom(w[1]).multi, z |-> RowGeom(w[1]).z]
          /\ w = <<>> => /\ sink.wkb = [family |-> "LineString", multi |-> FALSE, z |-> FALSE]
                         /\ pc # "error"

\* C13: after an empty line, a point with Z decided the type
C13_Witness ==
    /\ GdfRunning /\ Len(table.rows) = 2
    /\ RowGeom(1).parts = <<>> /\ RowGeom(1) # NullGeom
    /\ RowGeom(2).family = "Point" /\ RowGeom(2).z /\ ~RowGeom(2).multi
    /\ sink.wkb = [family |-> "Point", multi |-> FALSE, z |-> TRUE]

TypeOf(g) == [family |-> g.family, multi |-> g.multi, z |-> g.z]

\* C14 as stated: in a multi sink a single geometry of the sink's base family is
\* written as multi, and a geometry that is multi or of another base family is
\* written unchanged.
C14_PromoteMatching ==
    (GdfRunning /\ sink.wkb.multi)
    => \A k \in 1..Len(sink.feats) :
          LET g == RowGeom(UsableRows(i)[k])
          IN IF ~g.multi /\ g.family = sink.wkb.family
             THEN sink.feats[k].geom = [TypeOf(g) EXCEPT !.multi = TRUE]
             ELSE sink.feats[k].geom = TypeOf(g)

\* C14: in a multi sink every single Point, LineString or Polygon is written as
\* the multi-part container of its own family, whatever the sink's base family;
\* a multi geometry is written unchanged; in a single sink nothing is changed.
C14_PromoteOwnFamily ==
    GdfRunning
    => \A k \in 1..Len(sink.feats) :
          LET g == RowGeom(UsableRows(i)[k])
          IN /\ sink.feats[k].geom =
                   [TypeOf(g) EXCEPT !.multi = g.multi \/ sink.wkb.multi]
             /\ Concat(sink.feats[k].parts) = Concat(g.parts)
             /\ Len(sink.feats[k].parts) = IF g.multi THEN Len(g.parts) ELSE 1

\* C14: a single line was written as a MultiLineString into a MultiPoint sink
C14_Witness ==
    /\ GdfRunning /\ sink.wkb = [family |-> "Point", multi |-> TRUE, z |-> FALSE]
    /\ Len(sink.feats) = 2 /\ RowGeom(2) = Line2 /\ i = 2
    /\ sink.feats[2].geom = [family |-> "LineString", multi |-> TRUE, z |-> FALSE]

\* C15: promoting a promoted geometry changes nothing, for every geometry of
\* the frame handed to GeoDataFrameToQgsLayer, written or not.
C15_PromoteIdempotent ==
    (op = "GeoDataFrameToQgsLayer" /\ table.present)
    => \A n \in 1..Len(table.rows) :
          /\ Promote(Promote(RowGeom(n))) = Promote(RowGeom(n))
          /\ RowGeom(n).family \in Families => Promote(RowGeom(n)).multi

\* C15: a polygon with a hole was promoted on its way into a multi sink
C15_Witness ==
    /\ GdfRunning /\ sink.wkb.multi /\ Len(sink.feats) = 2
    /\ RowGeom(2) = PolygonHole /\ i = 2
    /\ sink.feats[2].geom.multi

\* C16: in qgsLayerToDataFrame (m2l) with a DTM, a source without a valid CRS
\* gets no raster value as Z (Z is 0 or the sentinel); when both CRSs are valid
\* the raster is read at the transformed coordinate if they differ and at the
\* vertex itself if they are equal.
C16_NoCrsNoSampling ==
    (/\ op = "qgsLayerToDataFrame" /\ layer.present /\ dtm.present
     /\ NoCoordinateFields(layer))
    => \A r \in 1..Len(rows) :
          LET x == rows[r]["X"].i
              y == rows[r]["Y"].i
              t == Transform(dtm, x, y)
          IN /\ layer.crs = "" => rows[r]["Z"] \in {FloatV(0), FloatV(Sentinel)}
             /\ (layer.crs # "" /\ dtm.crs # "" /\ layer.crs # dtm.crs)
                => rows[r]["Z"] = FloatV(IF t[1] THEN Sentinel ELSE Lookup(dtm, t[2], t[3]))
             /\ (layer.crs # "" /\ layer.crs = dtm.crs)
                => rows[r]["Z"] = FloatV(Lookup(dtm, x, y))

RasterCalled == op = "qgsRasterToGdalDataset" /\ i > 0

\* C17: a call of qgsRasterToGdalDataset on a valid raster that cannot be opened
\* directly ends with the dataset of the local copy or with an error, never
\* with no dataset; it raises when the export did not produce a copy at all.
C17_FailureIsHardError ==
    (RasterCalled /\ dtm.present /\ dtm.valid /\ ~dtm.open)
    => /\ result.kind = "raise" \/ result = [kind |-> "return", value |-> TmpPath(dtm.id)]
       /\ ~(\E n \in 1..Len(rows) : rows[n].id = dtm.id /\ rows[n].written)
          => result.kind = "raise"

\* C18: over the calls of qgsRasterToGdalDataset so far, gdal:translate ran at
\* most once per artifact path, and rasters with different ids were exported
\* to different paths.
C18_ExportedOnce ==
    op = "qgsRasterToGdalDataset"
    => \A m \in 1..Len(rows) : \A n \in 1..Len(rows) :
          /\ rows[m].path = rows[n].path => m = n
          /\ rows[m].id # rows[n].id => rows[m].path # rows[n].path

Writers == {"GeoDataFrameToQgsLayer", "dataframeToQgsLayer", "dataframeToQgsTable"}

\* the field type the rules give a column of the dtype; Int and LongLong are
\* both integer field types
Conforms(dtype, type) ==
    CASE dtype = "bool" -> type = "Bool"
      [] dtype = "int64" -> type \in {"Int", "LongLong"}
      [] dtype = "float64" -> type = "Double"
      [] dtype = "datetime64" -> type = "DateTime"
      [] OTHER -> type = "String"

\* C19: in each of the three writers every field of the sink has the type the
\* rules give the dtype of its column (bool -> Bool, integer -> an integer type,
\* float -> Double, date-time -> DateTime, anything else -> String), and
\* building the schema of a frame never raises.
C19_SchemaRules ==
    (op \in Writers /\ table.present)
    => /\ sink.created
          => \A c \in 1..Len(sink.fields) :
                Conforms(table.dtype[sink.fields[c].name], sink.fields[c].type)
       /\ pc = "error" => result.msg # "Cannot interpret dtype as a data type"

\* bits of the signed integers a field type holds
FieldBits(type) == IF type = "LongLong" THEN 64 ELSE IF type = "Int" THEN 32 ELSE 0

\* C20: in each of the three writers the field declared for an int64 column
\* holds 64-bit signed integers.
C20_IntegerFieldWidth ==
    (op \in Writers /\ sink.created)
    => \A c \in 1..Len(sink.fields) :
          table.dtype[sink.fields[c].name] = "int64"
          => FieldBits(sink.fields[c].type) >= 64

Decoded == op \in DecodePlaces /\ pc = "done"

\* the entries of a list, as a set
Entries(units) == {units[n] : n \in 1..Len(units)}

\* C21: at every place that decodes a list of unit names the result holds the
\* non-blank entries with surrounding whitespace removed, each once, in the
\* order of their first occurrences.
C21_DecodeOrderedList ==
    Decoded
    => LET out == result.value
           trimmed == [n \in 1..Len(matrix.items) |-> strip(matrix.items[n])]
       IN /\ Entries(out) = Entries(trimmed) \ {<<>>}
          /\ \A m \in 1..Len(out) : \A n \in 1..Len(out) : out[m] = out[n] => m = n
          /\ \A m \in 1..Len(out) : \A n \in 1..Len(out) :
                m < n => \E k \in 1..Len(trimmed) :
                            /\ trimmed[k] = out[m]
                            /\ \A o \in 1..k : trimmed[o] # out[n]

IsExample == matrix = [t |-> "list", items |-> << <<"B">>, <<" ", "a", " ">>, <<"A">>, <<"b">>, <<>> >>]

\* C22 as stated: the dock widget and the user-defined column decode
\* ["B", " a ", "A", "b", ""] to ["B", "a"].
C22_ExampleFolded ==
    (Decoded /\ IsExample /\ op # "ThicknessCalculatorAlgorithm.stratigraphic_order")
    => result.value = << <<"B">>, <<"a">> >>

\* C22: the dock widget and the user-defined column decode
\* ["B", " a ", "A", "b", ""] to ["B", "a", "A", "b"]: entries that differ only
\* in case are different entries.
C22_Example ==
    (Decoded /\ IsExample /\ op # "ThicknessCalculatorAlgorithm.stratigraphic_order")
    => result.value = << <<"B">>, <<"a">>, <<"A">>, <<"b">> >>

\* C22: the dock widget has decoded the example list
C22_Witness ==
    /\ Decoded /\ IsExample /\ op = "get_stratigraphic_column_list"
    /\ Len(result.value) = 4

\* C23: a reverse converter that got no sink from the host has raised a
\* QgsProcessingException with a message, has written no feature and has
\* reported no progress; a call that ended without a sink for another reason
\* was refused for its input before the sink was asked for.
C23_NoSinkAborts ==
    (op \in Writers /\ pc # "start" /\ ~sink.created)
    => /\ pc = "error" /\ result.kind = "raise"
       /\ sink.feats = <<>> /\ progress = <<>> /\ i = 0
       /\ result.msg \notin {"GeoDataFrame is None", "df must be a pandas.DataFrame",
                             "Cannot interpret dtype as a data type", "Empty DataFrame."}
          => /\ result.exc = "QgsProcessingException"
             /\ result.msg \in {"Could not create output sink", "Could not create feature sink",
                                "Canot create output table (sink=None)."}

\* C23: dataframeToQgsTable got no sink for a frame with rows
C23_Witness ==
    /\ op = "dataframeToQgsTable" /\ pc = "error" /\ Len(table.rows) = 2
    /\ result.msg = "Canot create output table (sink=None)."

\* C24: the CRS of the sink of GeoDataFrameToQgsLayer is the one of the frame's
\* CRS metadata (read from its WKT, or from its EPSG code when the WKT cannot
\* be produced); a frame without CRS, or with one that yields neither, gets
\* the invalid CRS, never the project's.
C24_SinkCrs ==
    GdfRunning
    => /\ table.crs \in {"none", "no WKT, no EPSG"} => sink.crs = ""
       /\ table.crs = "no WKT, EPSG:28350" => sink.crs = "EPSG:28350"
       /\ table.crs = "EPSG:4326" => sink.crs = "EPSG:4326"
       /\ sink.crs # "project"

\* C24: a frame without CRS was written to a sink with the invalid CRS
C24_Witness ==
    /\ GdfRunning /\ pc = "done" /\ table.crs = "none" /\ sink.crs = ""
    /\ Len(sink.feats) = 1

\* C25: the mapping BasalContactsAlgorithm.processAlgorithm returns holds the
\* keys BASAL_CONTACTS and ALL_CONTACTS.
C25_BothOutputs ==
    (op = "BasalContactsAlgorithm" /\ pc = "done")
    => {"BASAL_CONTACTS", "ALL_CONTACTS"} \subseteq DOMAIN result.value

\* C26: SamplerAlgorithm.processAlgorithm returns a mapping holding
\* SAMPLED_CONTACTS for the Decimator with a DTM and geology, and for Spacing
\* with neither DTM nor geology, whenever the host provides the sink.
C26_SamplerReturns ==
    (/\ op = "SamplerAlgorithm" /\ pc # "start"
     /\ \/ args.SAMPLER_TYPE = 0 /\ args.DTM /\ args.GEOLOGY
        \/ args.SAMPLER_TYPE = 1 /\ ~args.DTM /\ ~args.GEOLOGY)
    => \/ /\ pc = "done" /\ result.kind = "return"
          /\ "SAMPLED_CONTACTS" \in DOMAIN result.value
       \/ /\ pc = "error" /\ result.msg = "'NoneType' object has no attribute 'addFeature'"

\* C29: the bounding box the thickness calculator is built with satisfies
\* minx < maxx and miny < maxy, whether it is the extent of the geology layer
\* or the box decoded from the user's matrix.
C29_BoxOrdered ==
    (op = "ThicknessCalculatorAlgorithm" /\ pc = "done")
    => /\ Lt(result.value.minx, result.value.maxx)
       /\ Lt(result.value.miny, result.value.maxy)

\* C27: while qgsLayerToGeoDataFrame reads the features, the geometry column
\* and the column of every field hold as many entries as there are features
\* with a non-empty geometry among those read, whatever the fields are called.
C27_EqualColumns ==
    (op = "qgsLayerToGeoDataFrame" /\ layer.present /\ pc # "start")
    => LET kept == Cardinality({n \in 1..i : layer.feats[n].geom.parts # <<>>})
       IN /\ Len(data.col["geometry"]) = kept
          /\ \A c \in 1..Len(layer.fields) : Len(data.col[layer.fields[c].name]) = kept

C30_Progress ==
    (op \in {"GeoDataFrameToQgsLayer", "dataframeToQgsLayer"} /\ table.present)
    => /\ \A n \in 1..Len(progress) : progress[n] \in 0..100
       /\ \A m \in 1..Len(progress) : \A n \in 1..Len(progress) :
             m <= n => progress[m] <= progress[n]
       /\ (\E n \in 1..Len(progress) : progress[n] = 100) => i = Len(table.rows)
====
